---- MODULE Spec2Model ----
(***************************************************************************)
(* A model of the bloom shipper (package bloomshipper): Shipper.Fetch with *)
(* runCallback, and the block resolution of getActiveBlockRefs, findBlocks *)
(* and isOutsideRange; and of the cachedIterator of package iter.          *)
(***************************************************************************)
EXTENDS Integers, Sequences, FiniteSets, TLC

(***************************************************************************)
(* Bounds of the model.                                                    *)
(***************************************************************************)
\* the largest len(blocks) a Fetch call is made with
MaxBlocks == 3
\* results a downloader delivers beyond one per requested block
MaxExtra == 1
\* errors a downloader puts on the error channel
MaxErrors == 1
\* the largest fingerprint of the blocks and shard ranges isOutsideRange is
\* applied to; the model's math.MaxUint64
MaxFp == 4
\* the largest timestamp of the blocks and query windows
MaxTs == 1
\* the longest sequence of shard ranges ([]fpRange)
MaxRanges == 2
\* block and tombstone references the metas of the store list altogether
MaxEntries == 3
\* the most entries a wrapped iterator yields
MaxIterLen == 3
\* the largest len(blocks) of each of two concurrent Fetch calls
MaxPairBlocks == 1

VARIABLES
    pc,          \* where the Fetch call stands
    blocks,      \* Fetch's argument: the requested []BlockRef
    remaining,   \* Fetch's local counter (a Go int)
    resCh,       \* results the downloader has put on resCh, not yet received
    errCh,       \* errors the downloader has put on errCh, not yet received
    ctxErr,      \* ctx.Err() of the caller's context ("none": not done)
    subCtxDone,  \* whether cancelFunc of the derived context has run
    handles,     \* one record per result Fetch received, in order of receipt
    ret,         \* what the Fetch call returned
    sel,         \* the case the last select of Fetch's loop took
    unsent,      \* requested blocks the downloader has not delivered yet
    extra,       \* results the downloader delivered beyond the request
    errSent,     \* errors the downloader has put on errCh
    stage,       \* which call the other variables belong to, and its progress
    metas,       \* the []Meta that client.GetMetas returns
    from,        \* the query window's start (startTimestamp)
    through,     \* the query window's end (endTimestamp)
    fingerprints, \* the query's shard ranges ([]fpRange)
    found,       \* what findBlocks returned
    refs,        \* what getActiveBlockRefs returned
    blk,         \* the BlockRef isOutsideRange is called on
    outside,     \* what isOutsideRange returned
    api,         \* the method that was called to resolve block references
    resErr,      \* the error that method returned (<<>>: nil), as its chain
    getMetasCalls, \* how many times client.GetMetas has been called
    metasErr,    \* the error client.GetMetas returned (<<>>: nil)
    it,          \* the cachedIterator: cache, wrapped, curr, closeErr, iterErr
    inner,       \* the EntryIterator handed to NewCachedIterator
    caller,      \* what the user of the cachedIterator has got from it, and
                 \* how far the wrapped iterator was when its pass began
    other        \* a second Fetch call on the Shipper: its variables, while
                 \* the goroutine of the first call is the one that runs

fetchVars == <<pc, blocks, remaining, resCh, errCh, ctxErr, subCtxDone,
               handles, ret, sel, unsent, extra, errSent>>

blockVars == <<metas, from, through, fingerprints, found, refs, blk, outside,
               api, resErr, getMetasCalls, metasErr>>

iterVars == <<it, inner, caller>>

vars == <<fetchVars, stage, blockVars, iterVars, other>>

(***************************************************************************)
(* Values.                                                                 *)
(***************************************************************************)
\* the i-th BlockRef of a Fetch request: distinct paths, distinct bounds
RequestBlock(i) ==
    [BlockPath |-> i, MinFingerprint |-> 2 * i, MaxFingerprint |-> 2 * i + 1]

RequestBlocks(n) == [i \in 1..n |-> RequestBlock(i)]

\* fmt.Errorf("<msg>: %w", cause): an error that wraps its cause
Errorf(msg, cause) == [st |-> "error", msg |-> msg, cause |-> cause]

NotReturned == [st |-> "running", msg |-> "", cause |-> ""]
ReturnNil == [st |-> "nil", msg |-> "", cause |-> ""]
\* a panic of the callback unwinds Fetch: the call does not return a value
Unwound == [st |-> "panic", msg |-> "", cause |-> "callback panic"]

CtxErrors == {"context canceled", "context deadline exceeded"}
DownloadErrors == {"download failed"}
SetupError == [st |-> "error", msg |-> "", cause |-> "fetch setup failed"]
CallbackOutcomes == {"ok", "err", "panic"}
CallbackError == "callback failed"

Last(s) == s[Len(s)]

SetLast(s, x) == [s EXCEPT ![Len(s)] = x]

(***************************************************************************)
(* The caller's context and the block downloader (the environment).        *)
(***************************************************************************)
Finished == pc \in {"done", "panicked"}

\* one context shared by the calls on the Shipper: cancelling it cancels all
CancelShared ==
    /\ ~Finished
    /\ ctxErr = "none"
    /\ \E e \in CtxErrors :
          /\ ctxErr' = e
          /\ other' = [other EXCEPT !.ctxErr = e]
    /\ UNCHANGED <<stage, blockVars, iterVars>>
    /\ UNCHANGED <<pc, blocks, remaining, resCh, errCh, subCtxDone, handles,
                   ret, sel, unsent, extra, errSent>>

\* the caller cancels ctx, or its deadline expires
Cancel ==
    /\ ~Finished
    /\ ctxErr = "none"
    /\ \E e \in CtxErrors : ctxErr' = e
    /\ UNCHANGED <<stage, blockVars, iterVars, other>>
    /\ UNCHANGED <<pc, blocks, remaining, resCh, errCh, subCtxDone, handles,
                   ret, sel, unsent, extra, errSent>>

\* a download worker puts an opened block on the result channel: one of the
\* requested blocks, in any order, or one more than was requested
DownloaderSendResult ==
    /\ pc \notin {"init", "done", "panicked"}
    /\ \/ \E i \in unsent :
            /\ resCh' = Append(resCh, RequestBlock(i))
            /\ unsent' = unsent \ {i}
            /\ extra' = extra
       \/ /\ extra < MaxExtra
          /\ resCh' = Append(resCh, RequestBlock(1))
          /\ extra' = extra + 1
          /\ unsent' = unsent
    /\ UNCHANGED <<stage, blockVars, iterVars, other>>
    /\ UNCHANGED <<pc, blocks, remaining, errCh, ctxErr, subCtxDone, handles,
                   ret, sel, errSent>>

\* a download worker puts an error on the error channel
DownloaderSendError ==
    /\ pc \notin {"init", "done", "panicked"}
    /\ errSent < MaxErrors
    /\ \E e \in DownloadErrors : errCh' = Append(errCh, e)
    /\ errSent' = errSent + 1
    /\ UNCHANGED <<stage, blockVars, iterVars, other>>
    /\ UNCHANGED <<pc, blocks, remaining, resCh, ctxErr, subCtxDone, handles,
                   ret, sel, unsent, extra>>

\* Fetch going into its loop although blockDownloader.fetch returned an error
FetchCallIgnoresError ==
    /\ pc = "init"
    /\ \/ ret' = SetupError
       \/ ret' = ret
    /\ remaining' = Len(blocks)
    /\ pc' = "select"
    /\ UNCHANGED subCtxDone
    /\ UNCHANGED <<stage, blockVars, iterVars, other>>
    /\ UNCHANGED <<blocks, resCh, errCh, ctxErr, handles, sel, unsent, extra,
                   errSent>>

(***************************************************************************)
(* Shipper.Fetch and runCallback.                                          *)
(***************************************************************************)
\* lines 77-86: derive the context, call blockDownloader.fetch
FetchCall ==
    /\ pc = "init"
    /\ \/ /\ ret' = SetupError
          /\ pc' = "done"
          /\ subCtxDone' = TRUE
          /\ remaining' = remaining
       \/ /\ remaining' = Len(blocks)
          /\ pc' = "select"
          /\ UNCHANGED <<ret, subCtxDone>>
    /\ UNCHANGED <<stage, blockVars, iterVars, other>>
    /\ UNCHANGED <<blocks, resCh, errCh, ctxErr, handles, sel, unsent, extra,
                   errSent>>

\* the ctx.Done() case formatting the cause with %v: nothing is wrapped
CtxDoneReturnNotWrapped(err) == Errorf("failed to fetch blocks", "")

\* what the ctx.Done() case returns (line 92)
CtxDoneReturn(err) == Errorf("failed to fetch blocks", err)

\* the ctx.Done() case going round the loop again instead of returning
SelectCtxDoneContinues ==
    /\ pc = "select"
    /\ ctxErr # "none"
    /\ sel' = "ctx"
    /\ UNCHANGED <<stage, blockVars, iterVars, other>>
    /\ UNCHANGED <<pc, ret, subCtxDone, blocks, remaining, resCh, errCh, ctxErr,
                   handles, unsent, extra, errSent>>

\* the cancellation looked at only when neither channel has anything pending
SelectCtxDoneAfterData ==
    /\ pc = "select"
    /\ ctxErr # "none"
    /\ resCh = <<>> /\ errCh = <<>>
    /\ sel' = "ctx"
    /\ ret' = CtxDoneReturn(ctxErr)
    /\ pc' = "done"
    /\ subCtxDone' = TRUE
    /\ UNCHANGED <<stage, blockVars, iterVars, other>>
    /\ UNCHANGED <<blocks, remaining, resCh, errCh, ctxErr, handles, unsent,
                   extra, errSent>>

\* lines 90-92: case <-ctx.Done()
SelectCtxDone ==
    /\ pc = "select"
    /\ ctxErr # "none"
    /\ sel' = "ctx"
    /\ ret' = CtxDoneReturn(ctxErr)
    /\ pc' = "done"
    /\ subCtxDone' = TRUE
    /\ UNCHANGED <<stage, blockVars, iterVars, other>>
    /\ UNCHANGED <<blocks, remaining, resCh, errCh, ctxErr, handles, unsent,
                   extra, errSent>>

\* the errCh case returning the cancellation reason for the received error
ErrChReturnCtxErr(err) == Errorf("failed to fetch blocks", ctxErr)

\* what the errCh case returns (line 95)
ErrChReturn(err) == Errorf("failed to fetch blocks", err)

\* the errCh case receiving what is left on the result channel as it returns
SelectErrDrains ==
    /\ pc = "select"
    /\ errCh # <<>>
    /\ sel' = "err"
    /\ ret' = ErrChReturn(Head(errCh))
    /\ errCh' = Tail(errCh)
    /\ resCh' = <<>>
    /\ pc' = "done"
    /\ subCtxDone' = TRUE
    /\ UNCHANGED <<stage, blockVars, iterVars, other>>
    /\ UNCHANGED <<blocks, remaining, ctxErr, handles, unsent, extra,
                   errSent>>

\* lines 93-95: case err := <-errCh
SelectErr ==
    /\ pc = "select"
    /\ errCh # <<>>
    /\ sel' = "err"
    /\ ret' = ErrChReturn(Head(errCh))
    /\ errCh' = Tail(errCh)
    /\ pc' = "done"
    /\ subCtxDone' = TRUE
    /\ UNCHANGED <<stage, blockVars, iterVars, other>>
    /\ UNCHANGED <<blocks, remaining, resCh, ctxErr, handles, unsent, extra,
                   errSent>>

\* the callback given the fingerprint bounds of the first requested block
StartCallbackFirstBlockBounds(result) ==
    [BlockPath |-> result.BlockPath, cb |-> "running", closes |-> 0,
     argMin |-> RequestBlock(1).MinFingerprint,
     argMax |-> RequestBlock(1).MaxFingerprint]

\* the block closed before the callback is started on it
StartCallbackOnClosed(result) ==
    [BlockPath |-> result.BlockPath, cb |-> "running", closes |-> 1,
     argMin |-> result.MinFingerprint, argMax |-> result.MaxFingerprint]

\* the handle of a received result as runCallback starts the callback on it
\* (line 121): the callback gets the block's querier and fingerprint bounds
StartCallback(result) ==
    [BlockPath |-> result.BlockPath, cb |-> "running", closes |-> 0,
     argMin |-> result.MinFingerprint, argMax |-> result.MaxFingerprint]

\* the result case running the callback on a result it leaves on the channel
SelectResultKeepsResult ==
    /\ pc = "select"
    /\ resCh # <<>>
    /\ sel' = "res"
    /\ handles' = Append(handles, StartCallback(Head(resCh)))
    /\ pc' = "callback"
    /\ UNCHANGED <<stage, blockVars, iterVars, other>>
    /\ UNCHANGED <<blocks, remaining, resCh, errCh, ctxErr, subCtxDone, ret,
                   unsent, extra, errSent>>

\* the result case starting the callback in a goroutine of its own and
\* going on to select again
SelectResultSpawnsCallback ==
    /\ pc = "select"
    /\ resCh # <<>>
    /\ sel' = "res"
    /\ handles' = Append(handles, StartCallback(Head(resCh)))
    /\ resCh' = Tail(resCh)
    /\ UNCHANGED <<stage, blockVars, iterVars, other>>
    /\ UNCHANGED <<pc, blocks, remaining, errCh, ctxErr, subCtxDone, ret,
                   unsent, extra, errSent>>

\* the result case taking the result that was put on the channel last
SelectResultTakesLast ==
    /\ pc = "select"
    /\ resCh # <<>>
    /\ sel' = "res"
    /\ handles' = Append(handles, StartCallback(Last(resCh)))
    /\ resCh' = SubSeq(resCh, 1, Len(resCh) - 1)
    /\ pc' = "callback"
    /\ UNCHANGED <<stage, blockVars, iterVars, other>>
    /\ UNCHANGED <<blocks, remaining, errCh, ctxErr, subCtxDone, ret, unsent,
                   extra, errSent>>

\* lines 96-98, 113-121: case result := <-resCh, runCallback up to the call
SelectResult ==
    /\ pc = "select"
    /\ resCh # <<>>
    /\ sel' = "res"
    /\ handles' = Append(handles, StartCallback(Head(resCh)))
    /\ resCh' = Tail(resCh)
    /\ pc' = "callback"
    /\ UNCHANGED <<stage, blockVars, iterVars, other>>
    /\ UNCHANGED <<blocks, remaining, errCh, ctxErr, subCtxDone, ret, unsent,
                   extra, errSent>>

\* line 121: the callback returns nil, returns an error, or panics
CallbackReturn ==
    /\ pc = "callback"
    /\ \E o \in CallbackOutcomes :
            handles' = SetLast(handles, [Last(handles) EXCEPT !.cb = o])
    /\ pc' = "closing"
    /\ UNCHANGED <<stage, blockVars, iterVars, other>>
    /\ UNCHANGED <<blocks, remaining, resCh, errCh, ctxErr, subCtxDone, ret,
                   sel, unsent, extra, errSent>>

\* a close after a successful callback only, not deferred
CloseHandleOnSuccessOnly(h) ==
    IF h.cb = "ok" THEN [h EXCEPT !.closes = h.closes + 1] ELSE h

\* no close at all: the handle is left as the callback left it
CloseHandleMissing(h) == h

\* the deferred function of runCallback (lines 114-118) on a handle
DeferredCloseHandle(h) == [h EXCEPT !.closes = h.closes + 1]

\* lines 114-118: the deferred b.Close() runs on every exit of runCallback;
\* a panic of the callback goes on to unwind Fetch (its deferred cancelFunc)
DeferredClose ==
    /\ pc = "closing"
    /\ handles' = SetLast(handles, DeferredCloseHandle(Last(handles)))
    /\ IF Last(handles).cb = "panic"
         THEN /\ pc' = "panicked"
              /\ ret' = Unwound
              /\ subCtxDone' = TRUE
         ELSE /\ pc' = "after"
              /\ UNCHANGED <<ret, subCtxDone>>
    /\ UNCHANGED <<stage, blockVars, iterVars, other>>
    /\ UNCHANGED <<blocks, remaining, resCh, errCh, ctxErr, sel, unsent,
                   extra, errSent>>

\* runCallback dropping the callback's error
RunCallbackReturnDropsError(h) == ReturnNil

\* lines 123-126: what runCallback returns for the callback's outcome
RunCallbackReturn(h) ==
    IF h.cb = "err"
      THEN Errorf("error running callback function for block", CallbackError)
      ELSE ReturnNil

\* Fetch returning nil after the first successful callback, uncounted
AfterCallbackReturnsEarly ==
    /\ pc = "after"
    /\ LET err == RunCallbackReturn(Last(handles)) IN
         /\ ret' = err
         /\ pc' = "done"
         /\ subCtxDone' = TRUE
         /\ remaining' = IF err.st = "error" THEN remaining ELSE remaining - 1
    /\ UNCHANGED <<stage, blockVars, iterVars, other>>
    /\ UNCHANGED <<blocks, resCh, errCh, ctxErr, handles, sel, unsent, extra,
                   errSent>>

\* cancelFunc called on the error returns only, not deferred
AfterCallbackLeavesContext ==
    /\ pc = "after"
    /\ LET err == RunCallbackReturn(Last(handles)) IN
         IF err.st = "error"
           THEN /\ ret' = err
                /\ pc' = "done"
                /\ subCtxDone' = TRUE
                /\ remaining' = remaining
           ELSE /\ remaining' = remaining - 1
                /\ UNCHANGED subCtxDone
                /\ IF remaining' = 0
                     THEN /\ ret' = ReturnNil
                          /\ pc' = "done"
                     ELSE /\ pc' = "select"
                          /\ UNCHANGED ret
    /\ UNCHANGED <<stage, blockVars, iterVars, other>>
    /\ UNCHANGED <<blocks, resCh, errCh, ctxErr, handles, sel, unsent, extra,
                   errSent>>

\* lines 99-109: Fetch after runCallback returned
AfterCallback ==
    /\ pc = "after"
    /\ LET err == RunCallbackReturn(Last(handles)) IN
         IF err.st = "error"
           THEN /\ ret' = err
                /\ pc' = "done"
                /\ subCtxDone' = TRUE
                /\ remaining' = remaining
           ELSE /\ remaining' = remaining - 1
                /\ IF remaining' = 0
                     THEN /\ ret' = ReturnNil
                          /\ pc' = "done"
                          /\ subCtxDone' = TRUE
                     ELSE /\ pc' = "select"
                          /\ UNCHANGED <<ret, subCtxDone>>
    /\ UNCHANGED <<stage, blockVars, iterVars, other>>
    /\ UNCHANGED <<blocks, resCh, errCh, ctxErr, handles, sel, unsent, extra,
                   errSent>>

InitFetch ==
    /\ pc = "init"
    /\ \E n \in 0..MaxBlocks : blocks = RequestBlocks(n)
    /\ remaining = 0
    /\ resCh = <<>>
    /\ errCh = <<>>
    /\ ctxErr = "none"
    /\ subCtxDone = FALSE
    /\ handles = <<>>
    /\ ret = NotReturned
    /\ sel = "none"
    /\ unsent = 1..Len(blocks)
    /\ extra = 0
    /\ errSent = 0

(***************************************************************************)
(* Block resolution: fpRange, getFirstLast, isOutsideRange, findBlocks and *)
(* getActiveBlockRefs.                                                     *)
(***************************************************************************)
\* type fpRange [2]uint64 with its accessors
FpRange(lo, hi) == <<lo, hi>>

minFp(r) == r[1]

maxFp(r) == r[2]

\* `var zero T` of getFirstLast for T = fpRange
ZeroFpRange == FpRange(0, 0)

\* math.MaxUint64, the top of the fingerprint domain
MathMaxUint64 == MaxFp

BlockRef(path, lo, hi, start, end) ==
    [BlockPath |-> path, MinFingerprint |-> lo, MaxFingerprint |-> hi,
     StartTimestamp |-> start, EndTimestamp |-> end]

\* the first and the last item of s, zero values for an empty s
\* getFirstLast answering the widest range for an empty slice
getFirstLastFullWhenEmpty(s) ==
    IF Len(s) = 0
      THEN <<FpRange(0, MathMaxUint64), FpRange(0, MathMaxUint64)>>
      ELSE <<s[1], s[Len(s)]>>

getFirstLast(s) ==
    IF Len(s) = 0 THEN <<ZeroFpRange, ZeroFpRange>> ELSE <<s[1], s[Len(s)]>>

\* the loop of isOutsideRange with prev never advanced
gapScanPrevNotAdvanced(b, fps, i, prev) ==
    \E k \in i..Len(fps) :
        b.MinFingerprint > maxFp(prev) /\ b.MaxFingerprint < minFp(fps[k])

RECURSIVE gapScanInclusive(_, _, _, _)
\* the loop of isOutsideRange comparing with >= and <=
gapScanInclusive(b, fps, i, prev) ==
    IF i > Len(fps)
      THEN FALSE
      ELSE IF b.MinFingerprint >= maxFp(prev)
                 /\ b.MaxFingerprint <= minFp(fps[i])
             THEN TRUE
             ELSE gapScanInclusive(b, fps, i + 1, fps[i])

RECURSIVE gapScan(_, _, _, _)
\* the loop of isOutsideRange from index i on (Go's i is i - 1), prev the
\* range before it: TRUE when the loop returns true
gapScan(b, fps, i, prev) ==
    IF i > Len(fps)
      THEN FALSE
      ELSE IF b.MinFingerprint > maxFp(prev)
                 /\ b.MaxFingerprint < minFp(fps[i])
             THEN TRUE
             ELSE gapScan(b, fps, i + 1, fps[i])

isOutsideRange(b, startTimestamp, endTimestamp, fps) ==
    IF b.EndTimestamp < startTimestamp \/ b.StartTimestamp > endTimestamp
      THEN TRUE
      ELSE LET minFpRange == getFirstLast(fps)[1]
               maxFpRange == getFirstLast(fps)[2]
           IN  IF b.MaxFingerprint < minFp(minFpRange)
                    \/ b.MinFingerprint > maxFp(maxFpRange)
                 THEN TRUE
                 ELSE gapScan(b, fps, 1, ZeroFpRange)

\* the tombstones of the last meta only
outdatedBlocksLastMetaOnly(ms) ==
    IF ms = <<>>
      THEN {}
      ELSE {Last(ms).Tombstones[j].BlockPath : j \in DOMAIN Last(ms).Tombstones}

\* the keys of the map outdatedBlocks after the first loop of findBlocks
outdatedBlocks(ms) ==
    UNION {{ms[i].Tombstones[j].BlockPath : j \in DOMAIN ms[i].Tombstones} :
             i \in DOMAIN ms}

\* a map keyed by the whole BlockRef
mapPutKeyedByRef(m, block) ==
    [k \in DOMAIN m \cup {block} |-> IF k = block THEN block ELSE m[k]]

\* blocksSet[block.BlockPath] = block, the map held as a function
mapPut(m, block) ==
    [k \in DOMAIN m \cup {block.BlockPath} |->
        IF k = block.BlockPath THEN block ELSE m[k]]

RECURSIVE listedBlocks(_, _)
\* the blocks the second loop of findBlocks walks, in the order it walks
\* them: the Blocks of every meta from meta i on
listedBlocks(ms, i) ==
    IF i > Len(ms) THEN <<>> ELSE ms[i].Blocks \o listedBlocks(ms, i + 1)

RECURSIVE blocksSet(_, _, _, _, _, _, _)
\* the map blocksSet after the second loop of findBlocks has walked bs from
\* index j on, starting from the map m
blocksSet(m, bs, j, outdated, startTimestamp, endTimestamp, fps) ==
    IF j > Len(bs)
      THEN m
      ELSE IF bs[j].BlockPath \in outdated
             THEN blocksSet(m, bs, j + 1, outdated, startTimestamp,
                            endTimestamp, fps)
             ELSE IF isOutsideRange(bs[j], startTimestamp, endTimestamp, fps)
                    THEN blocksSet(m, bs, j + 1, outdated, startTimestamp,
                                   endTimestamp, fps)
                    ELSE blocksSet(mapPut(m, bs[j]), bs, j + 1, outdated,
                                   startTimestamp, endTimestamp, fps)

RECURSIVE Orders(_)
\* the orders in which a range over a Go map with keys S can yield them
Orders(S) ==
    IF S = {}
      THEN {<<>>}
      ELSE UNION {{<<k>> \o rest : rest \in Orders(S \ {k})} : k \in S}

\* findBlocks in one pass over the metas: a block is dropped for the
\* tombstones of its own and of earlier metas only
findBlocksSinglePass(ms, startTimestamp, endTimestamp, fps) ==
    LET keptAt == {ij \in UNION {{<<i, j>> : j \in DOMAIN ms[i].Blocks} :
                                    i \in DOMAIN ms} :
                      /\ \A k \in 1..ij[1] : \A t \in DOMAIN ms[k].Tombstones :
                            ms[k].Tombstones[t].BlockPath
                               # ms[ij[1]].Blocks[ij[2]].BlockPath
                      /\ ~isOutsideRange(ms[ij[1]].Blocks[ij[2]],
                                         startTimestamp, endTimestamp, fps)}
        lastAt(path) ==
            CHOOSE ij \in keptAt :
                /\ ms[ij[1]].Blocks[ij[2]].BlockPath = path
                /\ \A o \in keptAt :
                      ms[o[1]].Blocks[o[2]].BlockPath = path =>
                         (o[1] < ij[1] \/ (o[1] = ij[1] /\ o[2] <= ij[2]))
        m == [path \in {ms[ij[1]].Blocks[ij[2]].BlockPath : ij \in keptAt} |->
                 ms[lastAt(path)[1]].Blocks[lastAt(path)[2]]]
    IN  {[i \in 1..Len(order) |-> m[order[i]]] : order \in Orders(DOMAIN m)}

\* the slices findBlocks can return: the values of blocksSet in any order,
\* the iteration order of a Go map being unspecified
findBlocks(ms, startTimestamp, endTimestamp, fps) ==
    LET m == blocksSet(<<>>, listedBlocks(ms, 1), 1, outdatedBlocks(ms),
                       startTimestamp, endTimestamp, fps)
    IN  {[i \in 1..Len(order) |-> m[order[i]]] : order \in Orders(DOMAIN m)}

\* a comparison by MaxFingerprint
cmpMaxFingerprint(a, b) ==
    IF a.MaxFingerprint < b.MaxFingerprint
      THEN -1
      ELSE IF a.MaxFingerprint > b.MaxFingerprint THEN 1 ELSE 0

\* the comparison function getActiveBlockRefs sorts with
cmpMinFingerprint(a, b) ==
    IF a.MinFingerprint < b.MinFingerprint
      THEN -1
      ELSE IF a.MinFingerprint > b.MinFingerprint THEN 1 ELSE 0

RECURSIVE insertStable(_, _)
\* x put into the sorted s behind every element it does not compare less than
insertStable(s, x) ==
    IF s = <<>>
      THEN <<x>>
      ELSE IF cmpMinFingerprint(x, Last(s)) < 0
             THEN Append(insertStable(SubSeq(s, 1, Len(s) - 1), x), Last(s))
             ELSE Append(s, x)

RECURSIVE SortStableFunc(_)
\* slices.SortStableFunc: a stable sort, here by insertion
SortStableFunc(s) ==
    IF s = <<>>
      THEN <<>>
      ELSE insertStable(SortStableFunc(SubSeq(s, 1, Len(s) - 1)), Last(s))

(***************************************************************************)
(* The inputs of the block resolution.                                     *)
(***************************************************************************)
Fingerprints == 0..MaxFp

Timestamps == 0..MaxTs

Intervals(S) == {iv \in S \X S : iv[1] <= iv[2]}

\* the blocks isOutsideRange is applied to
ProbeBlocks ==
    {BlockRef("p", fp[1], fp[2], ts[1], ts[2]) :
        fp \in Intervals(Fingerprints), ts \in Intervals(Timestamps)}

RECURSIVE RangesFrom(_, _)
\* the ascending, non-overlapping sequences of at most n shard ranges that
\* lie at or above lo
RangesFrom(lo, n) ==
    IF n = 0
      THEN {<<>>}
      ELSE {<<>>} \cup
           UNION {{<<FpRange(iv[1], iv[2])>> \o rest :
                       rest \in RangesFrom(iv[2] + 1, n - 1)} :
                    iv \in Intervals(lo..MaxFp)}

ShardRanges == RangesFrom(0, MaxRanges)

\* the blocks the metas of the store list: two paths, each with bounds that
\* straddle a shard boundary or lie in the gap of StoreQueryRanges, and with
\* a time inside or outside the windows of StoreWindows
StoreBlocks ==
    {BlockRef(path, fp[1], fp[2], ts, ts) :
        path \in {"a", "b"}, fp \in {<<0, 1>>, <<1, 1>>}, ts \in {0, 1}}

\* a tombstone: findBlocks reads its BlockPath only
StoreTombstones == {BlockRef(path, 0, 0, 0, 0) : path \in {"a", "b"}}

StoreWindows == {<<0, 0>>, <<0, 1>>, <<1, 1>>}

StoreQueryRanges ==
    {<<FpRange(0, MathMaxUint64)>>, <<FpRange(0, 0), FpRange(2, 2)>>}

SeqsOfLen(S, k) == [1..k -> S]

\* the metas that list k references
MetasOfSize(k) ==
    UNION {[Blocks : SeqsOfLen(StoreBlocks, nb),
            Tombstones : SeqsOfLen(StoreTombstones, k - nb)] : nb \in 0..k}

\* what GetMetas returns: two metas (a meta may be empty) that list at most
\* MaxEntries references altogether
StoreMetas ==
    UNION {{<<m1, m2>> : m1 \in MetasOfSize(k[1]), m2 \in MetasOfSize(k[2])} :
             k \in {k \in (0..MaxEntries) \X (0..MaxEntries) :
                       k[1] + k[2] <= MaxEntries}}

\* the variables of a Fetch call that has not been made
NoCallState ==
    [pc |-> "idle", blocks |-> <<>>, remaining |-> 0, resCh |-> <<>>,
     errCh |-> <<>>, ctxErr |-> "none", subCtxDone |-> FALSE,
     handles |-> <<>>, ret |-> NotReturned, sel |-> "none", unsent |-> {},
     extra |-> 0, errSent |-> 0]

NoFetch ==
    /\ other = NoCallState
    /\ pc = "idle"
    /\ blocks = <<>>
    /\ remaining = 0
    /\ resCh = <<>>
    /\ errCh = <<>>
    /\ ctxErr = "none"
    /\ subCtxDone = FALSE
    /\ handles = <<>>
    /\ ret = NotReturned
    /\ sel = "none"
    /\ unsent = {}
    /\ extra = 0
    /\ errSent = 0

NoBlock == BlockRef("", 0, 0, 0, 0)

NoCall ==
    /\ api = "none"
    /\ resErr = <<>>
    /\ getMetasCalls = 0
    /\ metasErr = <<>>

\* a value of type error
NilError == "nil"

\* the zero value of logproto.Entry
ZeroEntry == "zero"

\* no cachedIterator has been made
NoIter ==
    /\ it = [cache |-> <<>>, wrapped |-> "nil", curr |-> -1,
             closeErr |-> NilError, iterErr |-> NilError]
    /\ inner = [entries |-> <<>>, pos |-> 0, closeErr |-> NilError,
                err |-> NilError, closes |-> 0, calls |-> 0]
    /\ caller = [pass |-> <<>>, done |-> FALSE, first |-> <<>>,
                 hasFirst |-> FALSE, closeRet |-> "unset",
                 errorRet |-> "unset", resetAt |-> 0]

NoResolution ==
    /\ stage = "fetch"
    /\ metas = <<>>
    /\ from = 0
    /\ through = 0
    /\ fingerprints = <<>>
    /\ found = <<>>
    /\ refs = <<>>
    /\ blk = NoBlock
    /\ outside = FALSE
    /\ NoCall

(***************************************************************************)
(* getActiveBlockRefs on the metas of the store.                           *)
(***************************************************************************)
InitBlocks ==
    /\ NoFetch
    /\ NoIter
    /\ stage = "metas"
    /\ metas \in StoreMetas
    /\ from = 0
    /\ through = 0
    /\ fingerprints = <<>>
    /\ found = <<>>
    /\ refs = <<>>
    /\ blk = NoBlock
    /\ outside = FALSE
    /\ NoCall

\* an error chain: fmt.Errorf("msg: %w", err) puts its message before err's
Wrap(msg, err) == <<msg>> \o err

\* the errors client.GetMetas may return
GetMetasErrors == {"store unavailable"}

\* what client.GetMetas may return: the store's metas, or an error
GetMetas(ms) ==
    {[metas |-> ms, err |-> <<>>]} \cup
    {[metas |-> <<>>, err |-> <<e>>] : e \in GetMetasErrors}

\* getActiveBlockRefs, given what GetMetas returned: findBlocks, then the
\* sort; the set holds one result for each order findBlocks may return
getActiveBlockRefs(got, s, e, fps) ==
    IF got.err # <<>>
    THEN {[found |-> <<>>, refs |-> <<>>,
           err |-> Wrap("error fetching meta.json files", got.err)]}
    ELSE {[found |-> activeBlocks, refs |-> SortStableFunc(activeBlocks),
           err |-> <<>>] : activeBlocks \in findBlocks(got.metas, s, e, fps)}

\* a caller inside the package calls getActiveBlockRefs with its own ranges
GetActiveBlockRefs ==
    /\ stage = "metas"
    /\ \E w \in StoreWindows, fps \in StoreQueryRanges, got \in GetMetas(metas) :
          /\ from' = w[1]
          /\ through' = w[2]
          /\ fingerprints' = fps
          /\ metasErr' = got.err
          /\ \E r \in getActiveBlockRefs(got, w[1], w[2], fps) :
                /\ found' = r.found
                /\ refs' = r.refs
                /\ resErr' = r.err
    /\ api' = "getActiveBlockRefs"
    /\ getMetasCalls' = getMetasCalls + 1
    /\ stage' = "resolved"
    /\ UNCHANGED <<metas, blk, outside>>
    /\ UNCHANGED <<fetchVars, iterVars, other>>

\* the zero value of fpRange as the only range
GetBlockRefsRangesZero == <<ZeroFpRange>>

\* the ranges GetBlockRefs passes down: the whole fingerprint domain
GetBlockRefsRanges == <<FpRange(0, MathMaxUint64)>>

\* the error formatted with %v: the message only, nothing to unwrap
GetBlockRefsErrorNotWrapped(err) ==
    <<"error fetching active block references ">>

\* what GetBlockRefs returns for an error of getActiveBlockRefs (line 71)
GetBlockRefsError(err) ==
    Wrap("error fetching active block references ", err)

\* GetBlockRefs with a sort that works on the Blocks slices of the metas
\* themselves
GetBlockRefsSortsInPlace ==
    /\ stage = "metas"
    /\ \E w \in StoreWindows, got \in GetMetas(metas) :
          /\ from' = w[1]
          /\ through' = w[2]
          /\ fingerprints' = GetBlockRefsRanges
          /\ metasErr' = got.err
          /\ \E r \in getActiveBlockRefs(got, w[1], w[2], GetBlockRefsRanges) :
                /\ found' = r.found
                /\ refs' = r.refs
                /\ resErr' = r.err
    /\ metas' = [i \in DOMAIN metas |->
                    [metas[i] EXCEPT !.Blocks = SortStableFunc(@)]]
    /\ api' = "GetBlockRefs"
    /\ getMetasCalls' = getMetasCalls + 1
    /\ stage' = "resolved"
    /\ UNCHANGED <<blk, outside>>
    /\ UNCHANGED <<fetchVars, iterVars, other>>

\* GetBlockRefs: getActiveBlockRefs over the whole fingerprint domain
GetBlockRefs ==
    /\ stage = "metas"
    /\ \E w \in StoreWindows, got \in GetMetas(metas) :
          /\ from' = w[1]
          /\ through' = w[2]
          /\ fingerprints' = GetBlockRefsRanges
          /\ metasErr' = got.err
          /\ \E r \in getActiveBlockRefs(got, w[1], w[2], GetBlockRefsRanges) :
                /\ found' = r.found
                /\ IF r.err # <<>>
                   THEN /\ refs' = <<>>
                        /\ resErr' = GetBlockRefsError(r.err)
                   ELSE /\ refs' = r.refs
                        /\ resErr' = <<>>
    /\ api' = "GetBlockRefs"
    /\ getMetasCalls' = getMetasCalls + 1
    /\ stage' = "resolved"
    /\ UNCHANGED <<metas, blk, outside>>
    /\ UNCHANGED <<fetchVars, iterVars, other>>

NextBlocks == GetActiveBlockRefs \/ GetBlockRefs

SpecBlocks == InitBlocks /\ [][NextBlocks]_vars

(***************************************************************************)
(* isOutsideRange on one block.                                            *)
(***************************************************************************)
InitRange ==
    /\ NoFetch
    /\ NoIter
    /\ stage = "block"
    /\ blk \in ProbeBlocks
    /\ \E w \in Intervals(Timestamps) : from = w[1] /\ through = w[2]
    /\ fingerprints \in ShardRanges
    /\ outside = FALSE
    /\ metas = <<>>
    /\ found = <<>>
    /\ refs = <<>>
    /\ NoCall

IsOutsideRange ==
    /\ stage = "block"
    /\ outside' = isOutsideRange(blk, from, through, fingerprints)
    /\ stage' = "tested"
    /\ UNCHANGED <<metas, from, through, fingerprints, found, refs, blk>>
    /\ UNCHANGED <<api, resErr, getMetasCalls, metasErr>>
    /\ UNCHANGED <<fetchVars, iterVars, other>>

NextRange == IsOutsideRange

SpecRange == InitRange /\ [][NextRange]_vars

(***************************************************************************)
(* The cachedIterator of package iter, over a wrapped EntryIterator.       *)
(***************************************************************************)
\* the entries a wrapped iterator may hold
IterEntryValues == {"x", "y"}

\* the errors the wrapped iterator's Close and Error may return
InnerCloseErrors == {NilError, "close failed"}

InnerIterErrors == {NilError, "iteration failed"}

\* the wrapped iterators: a sequence of entries, not yet started
InnerIterators ==
    [entries : UNION {[1..n -> IterEntryValues] : n \in 0..MaxIterLen},
     pos : {0},
     closeErr : InnerCloseErrors,
     err : InnerIterErrors,
     closes : {0},
     calls : {0}]

\* NewCachedIterator(it, cap)
NewCachedIterator ==
    [cache |-> <<>>, wrapped |-> "inner", curr |-> -1,
     closeErr |-> NilError, iterErr |-> NilError]

\* Reset dropping the cache as well as rewinding
ResetClearsCache(c) == [c EXCEPT !.curr = -1, !.cache = <<>>]

\* cachedIterator.Reset
Reset(c) == [c EXCEPT !.curr = -1]

\* consumeWrapped keeping its reference to the exhausted wrapped iterator
consumeWrappedKeepsWrapped(c, w) ==
    IF c.wrapped = "nil"
      THEN [it |-> c, inner |-> w, ok |-> FALSE]
      ELSE IF w.pos >= Len(w.entries)
             THEN [it |-> [c EXCEPT !.closeErr = w.closeErr,
                                    !.iterErr = w.err],
                   inner |-> [w EXCEPT !.closes = @ + 1, !.calls = @ + 3],
                   ok |-> FALSE]
             ELSE [it |-> [c EXCEPT !.cache = Append(@, w.entries[w.pos + 1]),
                                    !.curr = @ + 1],
                   inner |-> [w EXCEPT !.pos = @ + 1, !.calls = @ + 4],
                   ok |-> TRUE]

\* consumeWrapped, for a wrapped iterator w that is not nil: the iterator
\* and the wrapped iterator after the call, and what the call returns
consumeWrapped(c, w) ==
    IF c.wrapped = "nil"
      THEN [it |-> c, inner |-> w, ok |-> FALSE]
      ELSE IF w.pos >= Len(w.entries)
             THEN [it |-> [c EXCEPT !.closeErr = w.closeErr,
                                    !.iterErr = w.err,
                                    !.wrapped = "nil"],
                   inner |-> [w EXCEPT !.closes = @ + 1, !.calls = @ + 3],
                   ok |-> FALSE]
             ELSE [it |-> [c EXCEPT !.cache = Append(@, w.entries[w.pos + 1]),
                                    !.curr = @ + 1],
                   inner |-> [w EXCEPT !.pos = @ + 1, !.calls = @ + 4],
                   ok |-> TRUE]

\* Next advancing the cursor without comparing it with the cache's length
iterNextUnbounded(c, w) ==
    IF Len(c.cache) = 0 /\ c.wrapped = "nil"
      THEN [it |-> c, inner |-> w, ok |-> FALSE]
      ELSE IF c.curr + 1 >= Len(c.cache) /\ c.wrapped # "nil"
             THEN consumeWrapped(c, w)
             ELSE [it |-> [c EXCEPT !.curr = @ + 1], inner |-> w, ok |-> TRUE]

\* Next asking the wrapped iterator before replaying the cache
iterNextWrappedFirst(c, w) ==
    IF Len(c.cache) = 0 /\ c.wrapped = "nil"
      THEN [it |-> c, inner |-> w, ok |-> FALSE]
      ELSE IF c.wrapped # "nil"
             THEN consumeWrapped(c, w)
             ELSE IF c.curr + 1 >= Len(c.cache)
                    THEN [it |-> c, inner |-> w, ok |-> FALSE]
                    ELSE [it |-> [c EXCEPT !.curr = @ + 1], inner |-> w,
                          ok |-> TRUE]

\* cachedIterator.Next
iterNext(c, w) ==
    IF Len(c.cache) = 0 /\ c.wrapped = "nil"
      THEN [it |-> c, inner |-> w, ok |-> FALSE]
      ELSE IF c.curr + 1 >= Len(c.cache)
             THEN IF c.wrapped # "nil"
                    THEN consumeWrapped(c, w)
                    ELSE [it |-> c, inner |-> w, ok |-> FALSE]
             ELSE [it |-> [c EXCEPT !.curr = @ + 1], inner |-> w, ok |-> TRUE]

\* cachedIterator.Entry; curr counts from 0, the cache here from 1
Entry(c) ==
    IF Len(c.cache) = 0 \/ c.curr < 0 \/ c.curr >= Len(c.cache)
      THEN ZeroEntry
      ELSE c.cache[c.curr + 1]

\* cachedIterator.Error
Error(c) == c.iterErr

\* cachedIterator.Close
Close(c) == [it |-> Reset(c), err |-> c.closeErr]

InitIter ==
    /\ NoFetch
    /\ stage = "iter"
    /\ metas = <<>>
    /\ from = 0
    /\ through = 0
    /\ fingerprints = <<>>
    /\ found = <<>>
    /\ refs = <<>>
    /\ blk = NoBlock
    /\ outside = FALSE
    /\ NoCall
    /\ it = NewCachedIterator
    /\ inner \in InnerIterators
    /\ caller = [pass |-> <<>>, done |-> FALSE, first |-> <<>>,
                 hasFirst |-> FALSE, closeRet |-> "unset",
                 errorRet |-> "unset", resetAt |-> 0]

\* the caller calls Next and, when it returns true, reads Entry
CallNext ==
    /\ stage = "iter"
    /\ LET r == iterNext(it, inner) IN
         /\ it' = r.it
         /\ inner' = r.inner
         /\ caller' =
              IF r.ok
                THEN [caller EXCEPT !.pass = Append(@, Entry(r.it))]
                ELSE [caller EXCEPT
                        !.done = TRUE,
                        !.first = IF caller.hasFirst THEN @ ELSE caller.pass,
                        !.hasFirst = TRUE]
    /\ UNCHANGED <<fetchVars, stage, blockVars, other>>

\* the caller calls Reset and starts a new pass
CallReset ==
    /\ stage = "iter"
    /\ it' = Reset(it)
    /\ caller' = [caller EXCEPT !.pass = <<>>, !.done = FALSE,
                                !.resetAt = inner.pos]
    /\ UNCHANGED inner
    /\ UNCHANGED <<fetchVars, stage, blockVars, other>>

\* the caller calls Close and starts a new pass
CallClose ==
    /\ stage = "iter"
    /\ LET r == Close(it) IN
         /\ it' = r.it
         /\ caller' = [caller EXCEPT !.pass = <<>>, !.done = FALSE,
                                     !.closeRet = r.err,
                                     !.resetAt = inner.pos]
    /\ UNCHANGED inner
    /\ UNCHANGED <<fetchVars, stage, blockVars, other>>

\* the caller calls Error
CallError ==
    /\ stage = "iter"
    /\ caller' = [caller EXCEPT !.errorRet = Error(it)]
    /\ UNCHANGED <<it, inner>>
    /\ UNCHANGED <<fetchVars, stage, blockVars, other>>

NextIter == CallNext \/ CallReset \/ CallClose \/ CallError

SpecIter == InitIter /\ [][NextIter]_vars

\* the block resolution as a whole: a call of GetBlockRefs or of
\* getActiveBlockRefs on the metas of a store, or of isOutsideRange on a block
InitResolve == InitBlocks \/ InitRange

NextResolve == NextBlocks \/ NextRange

SpecResolve == InitResolve /\ [][NextResolve]_vars

\* one Fetch call on the Shipper
Init == InitFetch /\ NoResolution /\ NoIter /\ other = NoCallState

\* the variables of the Fetch call whose goroutine runs
CallState ==
    [pc |-> pc, blocks |-> blocks, remaining |-> remaining, resCh |-> resCh,
     errCh |-> errCh, ctxErr |-> ctxErr, subCtxDone |-> subCtxDone,
     handles |-> handles, ret |-> ret, sel |-> sel, unsent |-> unsent,
     extra |-> extra, errSent |-> errSent]

\* the variables of a Fetch call about to be made with n blocks
NewCallState(n) ==
    [NoCallState EXCEPT !.pc = "init", !.blocks = RequestBlocks(n),
                        !.unsent = 1..n]

\* two Fetch calls on one Shipper, each with a context and a downloader's
\* pair of channels of its own
InitPair ==
    /\ \E n \in 0..MaxPairBlocks :
          LET c == NewCallState(n) IN
            /\ pc = c.pc
            /\ blocks = c.blocks
            /\ remaining = c.remaining
            /\ resCh = c.resCh
            /\ errCh = c.errCh
            /\ ctxErr = c.ctxErr
            /\ subCtxDone = c.subCtxDone
            /\ handles = c.handles
            /\ ret = c.ret
            /\ sel = c.sel
            /\ unsent = c.unsent
            /\ extra = c.extra
            /\ errSent = c.errSent
    /\ \E n \in 0..MaxPairBlocks : other = NewCallState(n)
    /\ NoResolution
    /\ NoIter

\* the scheduler goes from the goroutine of one call to that of the other
Switch ==
    /\ other.pc # "idle"
    /\ other' = CallState
    /\ pc' = other.pc
    /\ blocks' = other.blocks
    /\ remaining' = other.remaining
    /\ resCh' = other.resCh
    /\ errCh' = other.errCh
    /\ ctxErr' = other.ctxErr
    /\ subCtxDone' = other.subCtxDone
    /\ handles' = other.handles
    /\ ret' = other.ret
    /\ sel' = other.sel
    /\ unsent' = other.unsent
    /\ extra' = other.extra
    /\ errSent' = other.errSent
    /\ UNCHANGED <<stage, blockVars, iterVars>>

Next ==
    \/ Cancel
    \/ DownloaderSendResult
    \/ DownloaderSendError
    \/ FetchCall
    \/ SelectCtxDone
    \/ SelectErr
    \/ SelectResult
    \/ CallbackReturn
    \/ DeferredClose
    \/ AfterCallback

\* one Fetch call, its caller's context and its downloader
Spec == Init /\ [][Next]_vars

NextPair == Next \/ Switch

\* two concurrent Fetch calls, their contexts and their downloader
SpecPair == InitPair /\ [][NextPair]_vars

\* the steps of the goroutine that runs Fetch
FetchStep ==
    \/ FetchCall
    \/ SelectCtxDone
    \/ SelectErr
    \/ SelectResult
    \/ CallbackReturn
    \/ DeferredClose
    \/ AfterCallback

\* Spec with a Fetch goroutine that is not held back while it can take a
\* step: a select with a ready case proceeds, a callback comes back and the
\* deferred close runs. Nothing is asked of the caller or the downloader.
FairSpec == Spec /\ WF_vars(FetchStep)

(***************************************************************************)
(* Properties of Fetch.                                                    *)
(***************************************************************************)
Requested == Len(blocks)

Callbacks == Len(handles)

\* the downloader has delivered exactly one result per requested block and
\* Fetch has received them all; no error was sent, no callback failed and
\* the context was not cancelled
DeliveredExactlyRequested ==
    /\ pc \notin {"init", "callback", "closing", "after"}
    /\ ret # SetupError
    /\ unsent = {} /\ extra = 0 /\ resCh = <<>>
    /\ errSent = 0
    /\ ctxErr = "none"
    /\ \A i \in DOMAIN handles : handles[i].cb = "ok"

\* C1: for any number N of requested blocks, when the downloader delivers
\* exactly N successful results, no error, and the context is never
\* cancelled, Fetch has invoked the callback exactly N times and returned
\* nil (it is not left waiting in its loop).
C1_NSuccessesReturnNil ==
    DeliveredExactlyRequested =>
        /\ pc = "done"
        /\ ret = ReturnNil
        /\ Callbacks = Requested

\* C1 for a request of at least one block
C1_NonEmptyRequest ==
    (DeliveredExactlyRequested /\ Requested >= 1) =>
        /\ pc = "done"
        /\ ret = ReturnNil
        /\ Callbacks = Requested

C1_NonEmptyWitness ==
    DeliveredExactlyRequested /\ Requested = MaxBlocks /\ pc = "done"

\* C2: every handle Fetch received is closed exactly once, never before its
\* callback has returned (or panicked), and when Fetch has returned or
\* unwound no received handle is open, whatever the callbacks' outcomes.
C2_HandleClosedOnce ==
    /\ \A i \in DOMAIN handles :
          /\ handles[i].closes <= 1
          /\ handles[i].closes = 1 => handles[i].cb # "running"
    /\ Finished => \A i \in DOMAIN handles : handles[i].closes = 1

C2_Witness ==
    /\ Finished
    /\ Len(handles) >= 2
    /\ Last(handles).cb \in {"err", "panic"}
    /\ \A i \in DOMAIN handles : handles[i].closes = 1

\* C3 as stated: once the caller's context is cancelled during the call, no
\* step of Fetch invokes a callback, and a Fetch that has returned has
\* returned the error wrapping the cancellation reason.
C3_NoCallbackOnceCancelled ==
    /\ [][ctxErr # "none" => Len(handles') = Len(handles)]_vars
    /\ []((pc = "done" /\ ctxErr # "none" /\ ret # SetupError)
             => ret = Errorf("failed to fetch blocks", ctxErr))

\* C3 amended: once the wait loop of Fetch has taken the ctx.Done() case,
\* Fetch has returned the non-nil error that wraps ctx.Err(), and no step
\* invokes a callback from then on.
C3_NoCallbackOnceObserved ==
    [][sel' = "ctx" =>
          /\ ctxErr' # "none"
          /\ pc' = "done"
          /\ ret' = Errorf("failed to fetch blocks", ctxErr')
          /\ handles' = handles]_vars

C3_Witness ==
    /\ sel = "ctx"
    /\ pc = "done"
    /\ Len(handles) >= 1
    /\ resCh # <<>>

Succeeded == {i \in DOMAIN handles : handles[i].cb = "ok"}

\* C5: when the callback returns an error, Fetch goes on to return an error
\* wrapping it without another callback (the failed handle is the last one
\* received), the handle is closed when Fetch returns, and the
\* remaining-count was decremented for the successful callbacks only.
C5_CallbackErrorReturns ==
    /\ \A i \in DOMAIN handles :
          handles[i].cb = "err" =>
             /\ i = Len(handles)
             /\ pc \in {"closing", "after", "done"}
             /\ remaining = Requested - Cardinality(Succeeded)
    /\ (pc = "done" /\ handles # <<>> /\ Last(handles).cb = "err") =>
          /\ ret.st = "error"
          /\ ret.cause = CallbackError
          /\ Last(handles).closes = 1

C5_Witness ==
    /\ pc = "done"
    /\ Len(handles) >= 2
    /\ Last(handles).cb = "err"
    /\ resCh # <<>>
    /\ remaining >= 2

(***************************************************************************)
(* Properties of the block resolution.                                     *)
(***************************************************************************)
\* the query's window and shard ranges do not exclude block b
InQuery(b) ==
    /\ b.EndTimestamp >= from /\ b.StartTimestamp <= through
    /\ \E i \in DOMAIN fingerprints :
          /\ b.MinFingerprint <= fingerprints[i][2]
          /\ b.MaxFingerprint >= fingerprints[i][1]

Tombstoned(path) ==
    \E i \in DOMAIN metas : \E j \in DOMAIN metas[i].Tombstones :
        metas[i].Tombstones[j].BlockPath = path

\* C6: a block path in the Tombstones of any meta, earlier or later, is the
\* path of no entry of findBlocks's result, whatever metas list it in Blocks.
C6_TombstonedNeverFound ==
    stage = "resolved" =>
        \A k \in DOMAIN found : ~Tombstoned(found[k].BlockPath)

\* meta1.Blocks = [X], meta2.Tombstones = [X], X inside the query: the
\* result is empty
C6_Witness ==
    /\ stage = "resolved"
    /\ Len(metas[1].Blocks) = 1 /\ metas[1].Tombstones = <<>>
    /\ metas[2].Blocks = <<>> /\ Len(metas[2].Tombstones) = 1
    /\ metas[2].Tombstones[1].BlockPath = metas[1].Blocks[1].BlockPath
    /\ InQuery(metas[1].Blocks[1])
    /\ found = <<>>

\* the metas that list path in Blocks, not excluded by the query
ActiveListings(path) ==
    {i \in DOMAIN metas :
        \E j \in DOMAIN metas[i].Blocks :
            /\ metas[i].Blocks[j].BlockPath = path
            /\ InQuery(metas[i].Blocks[j])}

\* C7: no two entries of findBlocks's result have the same BlockPath, and a
\* path that is tombstoned nowhere and listed active and in range by one or
\* more metas has exactly one entry (GetMetas having returned the metas).
C7_OneEntryPerPath ==
    (stage = "resolved" /\ resErr = <<>>) =>
        /\ \A i, j \in DOMAIN found :
              found[i].BlockPath = found[j].BlockPath => i = j
        /\ \A path \in {"a", "b"} :
              (ActiveListings(path) # {} /\ ~Tombstoned(path)) =>
                 Cardinality({k \in DOMAIN found :
                                 found[k].BlockPath = path}) = 1

\* both metas list path "a" in range, with different bounds
C7_Witness ==
    /\ stage = "resolved"
    /\ ActiveListings("a") = {1, 2}
    /\ metas[1].Blocks[1] # metas[2].Blocks[1]
    /\ Cardinality({k \in DOMAIN found : found[k].BlockPath = "a"}) = 1

\* the overall bound of the shard ranges R, [0, 0] for no range
OverallBound(R) ==
    IF R = <<>> THEN <<0, 0>> ELSE <<R[1][1], R[Len(R)][2]>>

TimeMisses(b) == b.EndTimestamp < from \/ b.StartTimestamp > through

BoundMisses(b, R) ==
    \/ b.MaxFingerprint < OverallBound(R)[1]
    \/ b.MinFingerprint > OverallBound(R)[2]

\* b lies strictly inside the gap between two consecutive ranges of R
InsideGap(b, R) ==
    \E i \in 1..(Len(R) - 1) :
        R[i][2] < b.MinFingerprint /\ b.MaxFingerprint < R[i + 1][1]

\* C8: for an ascending, non-overlapping sequence of shard ranges,
\* isOutsideRange is true exactly when the block's time interval misses
\* [from, through], or its fingerprint interval misses the overall bound of
\* the ranges, or it lies strictly inside a gap between two consecutive
\* ranges.
C8_OutsideIffMissesOrInGap ==
    stage = "tested" =>
        (outside <=> (TimeMisses(blk) \/ BoundMisses(blk, fingerprints)
                         \/ InsideGap(blk, fingerprints)))

\* a block excluded for lying in a gap alone
C8_Witness ==
    /\ stage = "tested"
    /\ outside
    /\ ~TimeMisses(blk)
    /\ ~BoundMisses(blk, fingerprints)
    /\ InsideGap(blk, fingerprints)

\* C9: for a non-empty sequence of shard ranges and a block whose time
\* interval intersects [from, through], the block is kept exactly when its
\* inclusive fingerprint interval intersects at least one of the ranges.
C9_KeptIffIntersectsARange ==
    (stage = "tested" /\ fingerprints # <<>> /\ ~TimeMisses(blk)) =>
        (~outside <=>
            \E i \in DOMAIN fingerprints :
                /\ blk.MinFingerprint <= fingerprints[i][2]
                /\ blk.MaxFingerprint >= fingerprints[i][1])

\* a block that straddles a shard boundary is kept: ranges [0,1], [3,4] and
\* the block [1,3] (the scenario's [0,10], [20,30] and [5,25] scaled)
C9_Witness ==
    /\ stage = "tested"
    /\ ~TimeMisses(blk)
    /\ fingerprints = <<FpRange(0, 1), FpRange(3, 4)>>
    /\ blk.MinFingerprint = 1 /\ blk.MaxFingerprint = 3
    /\ ~outside

\* C10: the sequence getActiveBlockRefs returns is sorted in ascending
\* order of MinFingerprint, and holds the entries findBlocks returned.
C10_SortedByMinFingerprint ==
    stage = "resolved" =>
        /\ \A i \in 1..(Len(refs) - 1) :
              refs[i].MinFingerprint <= refs[i + 1].MinFingerprint
        /\ Len(refs) = Len(found)
        /\ {refs[i] : i \in DOMAIN refs} = {found[i] : i \in DOMAIN found}

\* findBlocks returned two blocks in descending order
C10_Witness ==
    /\ stage = "resolved"
    /\ Len(found) = 2
    /\ found[1].MinFingerprint > found[2].MinFingerprint
    /\ refs = <<found[2], found[1]>>

\* the blocks findBlocks walks, in the order it walks them
Listed == listedBlocks(metas, 1)

\* the first position at which findBlocks's walk puts path into blocksSet
Discovered(path) ==
    LET kept == {k \in DOMAIN Listed :
                    /\ Listed[k].BlockPath = path
                    /\ ~Tombstoned(path)
                    /\ ~isOutsideRange(Listed[k], from, through, fingerprints)}
    IN  CHOOSE k \in kept : \A m \in kept : k <= m

\* C11: in the output of getActiveBlockRefs, two blocks with the same
\* MinFingerprint stand in the order in which findBlocks came upon them
\* walking the metas in sequence and each meta's Blocks in sequence.
C11_TiesKeepDiscoveryOrder ==
    (stage = "resolved" /\ resErr = <<>>) =>
        \A i, j \in DOMAIN refs :
            (i < j /\ refs[i].MinFingerprint = refs[j].MinFingerprint) =>
                Discovered(refs[i].BlockPath) < Discovered(refs[j].BlockPath)

\* the paths some meta lists in Blocks with a time interval that meets the
\* query window, and that no meta lists in Tombstones
ActiveInWindow ==
    {Listed[k].BlockPath : k \in
        {k \in DOMAIN Listed :
            /\ Listed[k].EndTimestamp >= from
            /\ Listed[k].StartTimestamp <= through
            /\ ~Tombstoned(Listed[k].BlockPath)}}

\* C12: GetBlockRefs resolves over the whole fingerprint domain
\* [0, max_uint64]: its result holds exactly the paths that some returned
\* meta lists as active, no meta tombstones, and whose time interval meets
\* [from, through] (End >= from and Start <= through); no block is left out
\* for its fingerprint bounds.
C12_GetBlockRefsFullDomain ==
    (stage = "resolved" /\ api = "GetBlockRefs" /\ resErr = <<>>) =>
        /\ fingerprints = <<FpRange(0, MathMaxUint64)>>
        /\ {refs[k].BlockPath : k \in DOMAIN refs} = ActiveInWindow

\* GetBlockRefs returned a block whose fingerprints start above 0 and left
\* out a listed block outside the window
C12_Witness ==
    /\ stage = "resolved" /\ api = "GetBlockRefs" /\ resErr = <<>>
    /\ \E k \in DOMAIN refs : refs[k].MinFingerprint > 0
    /\ \E k \in DOMAIN Listed :
          /\ ~Tombstoned(Listed[k].BlockPath)
          /\ Listed[k].BlockPath \notin ActiveInWindow

(***************************************************************************)
(* Further properties of Fetch.                                            *)
(***************************************************************************)
\* C13: Fetch is all-or-partial. A call that has returned has returned nil
\* after exactly len(blocks) callbacks, all of them without error, or it has
\* returned one non-nil error after zero or more callbacks; what it returned
\* stays; it never returns nil after fewer than len(blocks) successes.
C13_AllOrPartial ==
    /\ [](ret = ReturnNil =>
            /\ pc = "done"
            /\ Callbacks = Requested
            /\ Cardinality(Succeeded) = Requested)
    /\ [](pc = "done" =>
            \/ ret = ReturnNil
            \/ ret.st = "error" /\ Callbacks <= Requested + extra)
    /\ [][pc = "done" => (pc' = "done" /\ ret' = ret /\ handles' = handles)]_vars

\* nil after exactly two callbacks for two requested blocks, a third result
\* having been delivered and left on the channel
C13_Witness ==
    /\ pc = "done"
    /\ ret = ReturnNil
    /\ Requested = 2
    /\ Cardinality(Succeeded) = 2
    /\ extra = 1
    /\ resCh # <<>>

\* the results Fetch has received from resCh: those the downloader has put
\* on the channel less those still on it
Received == (Requested - Cardinality(unsent)) + extra - Len(resCh)

C15_CancelledFetchEnds ==
    (pc = "select" /\ ctxErr # "none") ~> Finished

\* Fetch has observed the cancellation while requested blocks were still
\* undelivered and nothing was on either channel
C15_Witness ==
    /\ pc = "done" /\ sel = "ctx"
    /\ unsent # {}
    /\ resCh = <<>> /\ errCh = <<>>
    /\ errSent = 0
    /\ ret.cause = ctxErr

\* C16: when the downloader's fetch fails synchronously, Fetch returns that
\* failure from its first step; it has invoked no callback and received
\* nothing from the result or the error channel, then and afterwards.
C16_SetupFailureReturned ==
    /\ [](ret = SetupError =>
            /\ pc = "done"
            /\ handles = <<>>
            /\ sel = "none"
            /\ Received = 0
            /\ errCh = <<>> /\ errSent = 0)
    /\ [][pc = "init" =>
             \/ pc' = "init"
             \/ pc' = "select" /\ ret' = ret
             \/ pc' = "done" /\ ret' = SetupError]_vars
    /\ [][ret' = SetupError => (pc = "init" \/ ret = SetupError)]_vars

\* the setup of a request for blocks failed, the context already cancelled
C16_Witness ==
    /\ ret = SetupError
    /\ pc = "done"
    /\ Requested >= 1
    /\ ctxErr # "none"
    /\ handles = <<>>

\* C17: when GetMetas fails, GetBlockRefs returns a non-nil error from
\* which the cause can be unwrapped and no blocks, and GetMetas has been
\* called once for the call.
C17_GetMetasFailure ==
    /\ (stage = "resolved" /\ api = "GetBlockRefs" /\ metasErr # <<>>) =>
          /\ resErr # <<>>
          /\ Last(resErr) = Last(metasErr)
          /\ Len(resErr) > Len(metasErr)
          /\ refs = <<>>
          /\ found = <<>>
    /\ (stage = "resolved" /\ api = "GetBlockRefs") => getMetasCalls = 1

\* GetMetas failed for a store that lists a block inside the window
C17_Witness ==
    /\ stage = "resolved" /\ api = "GetBlockRefs"
    /\ metasErr = <<"store unavailable">>
    /\ ActiveInWindow # {}
    /\ refs = <<>>
    /\ getMetasCalls = 1
    /\ resErr = <<"error fetching active block references ",
                  "error fetching meta.json files", "store unavailable">>

\* C18: every error returned is wrapped with the context of its phase and
\* keeps its cause. For Fetch: an error it has returned, of the kinds
\* download setup error, cancellation, download error and callback error,
\* carries a message naming the phase in front of the cause it wraps.
C18_EveryErrorWrapped ==
    (pc = "done" /\ ret.st = "error") =>
        /\ ret.msg # ""
        /\ ret.cause \in CtxErrors \cup DownloadErrors
                           \cup {CallbackError, SetupError.cause}

\* C19: within one Fetch call the callback is invoked once for each result
\* Fetch receives from the result channel and at no other time: the
\* invocations are as many as the results received, and a step that
\* invokes the callback invokes it once, on the result it takes off resCh.
C19_OneCallbackPerResult ==
    /\ [](Callbacks = Received)
    /\ [][handles' # handles =>
             \/ /\ Len(handles') = Len(handles) + 1
                /\ resCh # <<>>
                /\ resCh' = Tail(resCh)
                /\ Last(handles').BlockPath = Head(resCh).BlockPath
                /\ Last(handles').cb = "running"
                /\ SubSeq(handles', 1, Len(handles)) = handles
             \/ /\ Len(handles') = Len(handles)
                /\ resCh' = resCh]_vars

\* the downloader delivered block 1 twice: each delivery had its callback
C19_Witness ==
    /\ Len(handles) = 3
    /\ Received = 3
    /\ extra = 1
    /\ Cardinality({i \in DOMAIN handles : handles[i].BlockPath = 1}) = 2
    /\ \A i \in DOMAIN handles : handles[i].cb = "ok"

\* C20: for every delivered block the callback has come back before the
\* block's handle is closed, and the handle is closed before Fetch's loop
\* takes its next case, be it the next result, the cancellation or an error.
C20_CallbackCloseNext ==
    /\ [](\A i \in DOMAIN handles :
             handles[i].closes >= 1 => handles[i].cb # "running")
    /\ [][\A i \in DOMAIN handles :
             handles'[i].closes # handles[i].closes =>
                /\ handles[i].cb # "running"
                /\ handles'[i].cb = handles[i].cb
                /\ pc = "closing"]_vars
    /\ [][(pc = "select" /\ pc' # "select") =>
             \A i \in DOMAIN handles :
                handles[i].cb # "running" /\ handles[i].closes = 1]_vars

\* the callback runs on the third result, the first two handles closed
C20_Witness ==
    /\ pc = "callback"
    /\ Len(handles) = 3
    /\ Last(handles).cb = "running" /\ Last(handles).closes = 0
    /\ \A i \in 1..2 : handles[i].cb = "ok" /\ handles[i].closes = 1
    /\ ctxErr # "none"
    /\ errCh # <<>>

\* C21: a Fetch called with no blocks, whose downloader delivers nothing and
\* whose context is not cancelled, has returned nil without a callback
\* once its call of blockDownloader.fetch has come back without an error.
C21_EmptyRequestReturnsNil ==
    (/\ Requested = 0
     /\ pc # "init" /\ ret # SetupError
     /\ extra = 0 /\ errSent = 0
     /\ ctxErr = "none") =>
        /\ pc = "done"
        /\ ret = ReturnNil
        /\ handles = <<>>

\* C23: in Fetch's wait loop the cancellation has the same priority as the
\* channels: in every state in which the loop waits and the context is
\* cancelled, returning the cancellation error is an enabled step, whatever
\* is pending on the result and the error channel.
C23_CancellationEnabled ==
    (pc = "select" /\ ctxErr # "none") => ENABLED SelectCtxDone

\* the cancellation was taken while a result and an error were pending
C23_Witness ==
    /\ pc = "done" /\ sel = "ctx"
    /\ resCh # <<>>
    /\ errCh # <<>>
    /\ ret = Errorf("failed to fetch blocks", ctxErr)

\* the block paths of a sequence of results or handles
Paths(s) == [i \in DOMAIN s |-> s[i].BlockPath]

\* the blocks in the order the result channel hands them over: those the
\* callback has been invoked on, then those still on the channel
ChannelOrder == Paths(handles) \o Paths(resCh)

\* C24: the callbacks are invoked in the order in which the results come
\* out of the result channel, whatever the order of the request: Fetch
\* neither reorders nor holds back results, so the order of the invocations
\* followed by the results still pending changes only by the downloader
\* putting a result at its end.
C24_CallbacksInChannelOrder ==
    [][\/ ChannelOrder' = ChannelOrder
       \/ /\ Len(ChannelOrder') = Len(ChannelOrder) + 1
          /\ SubSeq(ChannelOrder', 1, Len(ChannelOrder)) = ChannelOrder
          /\ handles' = handles]_vars

\* blocks 1, 2, 3 were requested; the callbacks ran on 3, then 1, then 2
C24_Witness ==
    /\ Requested = 3
    /\ Paths(handles) = <<3, 1, 2>>
    /\ pc = "done" /\ ret = ReturnNil

\* C25: for every delivered block the callback is invoked with the querier
\* of that block and with that block's MinFingerprint and MaxFingerprint,
\* not with the bounds of another block or of the request.
C25_CallbackGetsOwnBounds ==
    /\ [](\A i \in DOMAIN handles :
             /\ handles[i].argMin = RequestBlock(handles[i].BlockPath).MinFingerprint
             /\ handles[i].argMax = RequestBlock(handles[i].BlockPath).MaxFingerprint)
    /\ [][Len(handles') > Len(handles) =>
             /\ resCh # <<>>
             /\ Last(handles').BlockPath = Head(resCh).BlockPath
             /\ Last(handles').argMin = Head(resCh).MinFingerprint
             /\ Last(handles').argMax = Head(resCh).MaxFingerprint]_vars

\* the callback runs on block 3, after block 2, with the bounds of block 3
C25_Witness ==
    /\ pc = "callback"
    /\ Paths(handles) = <<2, 3>>
    /\ Last(handles).argMin = 6 /\ Last(handles).argMax = 7
    /\ Last(handles).cb = "running"

\* C26: when metas list an active, in-range block path more than once, the
\* entry findBlocks returns for the path is the first listing its walk came
\* upon; a later listing of the path, whatever its fields, does not change
\* it.
C26_FirstListingKept ==
    (stage = "resolved" /\ resErr = <<>>) =>
        \A k \in DOMAIN found :
            found[k] = Listed[Discovered(found[k].BlockPath)]

\* C28: Fetch does not reclaim the downloader's work when it returns early.
\* A step by which Fetch returns an error (cancellation, error delivery or
\* callback error) receives no result and closes no handle that is still on
\* the result channel, and a call that has ended takes nothing off the
\* channel: what the downloader has produced and Fetch has not received
\* stays unreceived and unclosed by Fetch.
C28_PendingResultsLeftBehind ==
    /\ [][(~Finished /\ Finished' /\ ret'.st = "error") =>
             /\ resCh' = resCh
             /\ Len(handles') = Len(handles)]_vars
    /\ [][Finished => (Len(resCh') >= Len(resCh) /\ handles' = handles)]_vars

\* Fetch has returned the download error after one callback, one opened
\* block left on the result channel and one block undelivered
C28_Witness ==
    /\ pc = "done" /\ sel = "err"
    /\ ret.st = "error"
    /\ Requested = 3
    /\ Len(handles) = 1
    /\ Len(resCh) = 1
    /\ Cardinality(unsent) = 1

\* C30: the cancellable context Fetch derives and hands to the downloader
\* is cancelled on every way out of Fetch, the return of nil included:
\* once the call has ended the downloader sees it cancelled.
C30_SubContextCancelled == Finished => subCtxDone

\* nil returned for a request of one block, the caller's context live
C30_Witness ==
    /\ pc = "done" /\ ret = ReturnNil
    /\ Requested = 1
    /\ ctxErr = "none"
    /\ subCtxDone

(***************************************************************************)
(* Properties of the cachedIterator.                                       *)
(***************************************************************************)
\* C29: a cached iterator can be iterated again without the wrapped
\* iterator. Once the wrapped iterator is exhausted, every full pass of
\* Next and Entry, after whatever Reset and Close calls, yields the entries
\* of the first full pass in the same order (all the entries the wrapped
\* iterator held), and no step calls the wrapped iterator any more.
C29_ReplayFromCache ==
    /\ []((it.wrapped = "nil" /\ caller.done) =>
             /\ caller.pass = caller.first
             /\ caller.pass = inner.entries)
    /\ [][it.wrapped = "nil" => inner' = inner]_vars

\* a full pass over three entries after a Close that came after the wrapped
\* iterator was exhausted and closed
C29_Witness ==
    /\ it.wrapped = "nil"
    /\ caller.done
    /\ caller.closeRet = "close failed"
    /\ caller.pass = <<"x", "y", "x">>
    /\ inner.calls = 15

\* C27: findBlocks and isOutsideRange change none of their inputs: after a
\* call the metas, with the Blocks and Tombstones of each, are what they
\* were before it, and so are the shard ranges and the block
\* isOutsideRange was given.
C27_InputsUnchanged ==
    [][/\ metas' = metas
       /\ stage = "block" => (fingerprints' = fingerprints /\ blk' = blk)
       /\ stage = "resolved" => fingerprints' = fingerprints]_vars

\* two blocks listed in descending order of MinFingerprint came back
\* sorted, the metas still list them as before
C27_Witness ==
    /\ stage = "resolved" /\ resErr = <<>>
    /\ Len(Listed) = 2
    /\ Listed[1].MinFingerprint > Listed[2].MinFingerprint
    /\ refs = <<Listed[2], Listed[1]>>

Executing == {i \in DOMAIN handles : handles[i].cb = "running"}

\* the received handles that have not been closed
Open == {i \in DOMAIN handles : handles[i].closes = 0}

\* C31: within one Fetch call callbacks do not overlap: at every moment at
\* most one callback is executing and at most one received handle is open,
\* however many results the download workers have put on the channel.
C31_CallbacksNeverOverlap ==
    /\ Cardinality(Executing) <= 1
    /\ Cardinality(Open) <= 1
    /\ Executing \subseteq Open
    /\ Open \subseteq {Len(handles)}

\* a callback runs on the second result while a third result and an error
\* wait on the channels
C31_Witness ==
    /\ pc = "callback"
    /\ Len(handles) = 2
    /\ Executing = {2} /\ Open = {2}
    /\ resCh # <<>>
    /\ errCh # <<>>

\* C32: the callback is invoked at most len(blocks) times in one Fetch
\* call, for every block list, the empty one included, and whatever the
\* downloader delivers, more results than were requested included.
C32_CallbacksAtMostRequested == Callbacks <= Requested

(***************************************************************************)
(* findBlocks and the order of its input.                                  *)
(***************************************************************************)
\* the sequences with the elements of s in any order
SeqPerms(s) == {[i \in DOMAIN s |-> s[order[i]]] : order \in Orders(DOMAIN s)}

\* meta m with its Blocks and its Tombstones in any order
MetaPerms(m) ==
    {[Blocks |-> bs, Tombstones |-> ts] :
        bs \in SeqPerms(m.Blocks), ts \in SeqPerms(m.Tombstones)}

\* the metas ms in any order, each with its Blocks and Tombstones in any
\* order
MetasPerms(ms) ==
    {[i \in DOMAIN ms |-> f[order[i]]] :
        order \in Orders(DOMAIN ms),
        f \in {f \in [DOMAIN ms -> UNION {MetaPerms(ms[i]) : i \in DOMAIN ms}] :
                  \A i \in DOMAIN ms : f[i] \in MetaPerms(ms[i])}}

\* the block paths of the slices in S
PathSet(S) == UNION {{s[i].BlockPath : i \in DOMAIN s} : s \in S}

\* C33: the set of block paths findBlocks returns is the same for the
\* metas in any order and the Blocks and Tombstones of each meta in any
\* order.
C33_PathsIndependentOfOrder ==
    []((stage = "resolved" /\ resErr = <<>>) =>
          \A ms \in MetasPerms(metas) :
              PathSet(findBlocks(ms, from, through, fingerprints))
                 = {found[k].BlockPath : k \in DOMAIN found})

\* the first meta lists a and b in range, the second tombstones a: the
\* result is b, as it is with the metas the other way round
C33_Witness ==
    /\ stage = "resolved" /\ resErr = <<>>
    /\ Len(metas[1].Blocks) = 2 /\ metas[1].Tombstones = <<>>
    /\ metas[1].Blocks[1].BlockPath = "a" /\ metas[1].Blocks[2].BlockPath = "b"
    /\ InQuery(metas[1].Blocks[1]) /\ InQuery(metas[1].Blocks[2])
    /\ metas[2].Blocks = <<>> /\ Len(metas[2].Tombstones) = 1
    /\ metas[2].Tombstones[1].BlockPath = "a"
    /\ {found[k].BlockPath : k \in DOMAIN found} = {"b"}

(***************************************************************************)
(* C34: with an empty sequence of shard ranges getFirstLast answers two    *)
(* zero values, so the overall bound is [0,0]: isOutsideRange excludes     *)
(* every block whose MinFingerprint is greater than 0 and keeps a block    *)
(* whose MinFingerprint is 0 and whose time span overlaps the window; the  *)
(* test always answers (it is enabled and yields a boolean).               *)
(***************************************************************************)
C34_EmptyRangesBoundZero ==
    fingerprints = <<>> =>
        /\ getFirstLast(fingerprints) = <<ZeroFpRange, ZeroFpRange>>
        /\ OverallBound(fingerprints) = <<0, 0>>
        /\ stage = "block" => ENABLED IsOutsideRange
        /\ stage = "tested" =>
              /\ outside \in BOOLEAN
              /\ blk.MinFingerprint > 0 => outside
              /\ (blk.MinFingerprint = 0 /\ ~TimeMisses(blk)) => ~outside

\* a block starting at fingerprint 0 is kept, with no shard range at all
C34_Witness ==
    /\ stage = "tested"
    /\ fingerprints = <<>>
    /\ blk.MinFingerprint = 0
    /\ blk.MaxFingerprint > 0
    /\ ~TimeMisses(blk)
    /\ ~outside

(***************************************************************************)
(* C35: a cached iterator closes its wrapped iterator exactly once, at the *)
(* first Next call for which the wrapped iterator's Next returns false.    *)
(* From then on the wrapped reference is nil, no method of the wrapped     *)
(* iterator is called again, and Error and Close of the cached iterator    *)
(* return the error values recorded from the wrapped iterator.             *)
(***************************************************************************)
C35_WrappedClosedOnce ==
    /\ [](/\ inner.closes <= 1
          /\ (it.wrapped = "nil") <=> (inner.closes = 1)
          /\ it.wrapped = "nil" =>
                /\ Error(it) = inner.err
                /\ Close(it).err = inner.closeErr)
    \* the wrapped iterator is closed by the call that finds it exhausted,
    \* and by no other
    /\ [][/\ (inner'.calls # inner.calls /\ inner.pos >= Len(inner.entries))
               => (inner'.closes = 1 /\ it'.wrapped = "nil")
          /\ inner'.closes # inner.closes
               => /\ inner.pos >= Len(inner.entries)
                  /\ inner.closes = 0
                  /\ it.wrapped = "inner"
                  /\ caller'.done]_vars
    \* afterwards the reference stays nil and the wrapped iterator is left
    \* alone
    /\ [][it.wrapped = "nil" => (inner' = inner /\ it'.wrapped = "nil")]_vars

\* after the wrapped iterator of two entries was exhausted and closed, Close
\* and Error answered the errors it had returned
C35_Witness ==
    /\ it.wrapped = "nil"
    /\ inner.closes = 1
    /\ inner.entries = <<"x", "y">>
    /\ caller.done
    /\ caller.pass = <<"x", "y">>
    /\ caller.closeRet = "close failed"
    /\ caller.errorRet = "iteration failed"

(***************************************************************************)
(* C36: after any sequence of Next, Reset and Close calls the cursor of a  *)
(* cached iterator satisfies -1 <= curr <= len(cache) - 1, and the cache   *)
(* only grows by appending: the entries already cached are never changed   *)
(* or removed.                                                             *)
(***************************************************************************)
C36_CursorWithinCache ==
    /\ [](-1 <= it.curr /\ it.curr <= Len(it.cache) - 1)
    /\ [][/\ Len(it'.cache) >= Len(it.cache)
          /\ SubSeq(it'.cache, 1, Len(it.cache)) = it.cache]_vars

\* the cursor on the last of three cached entries, after a Next call that
\* found the cache replayed and the wrapped iterator gone
C36_Witness ==
    /\ Len(it.cache) = 3
    /\ it.curr = 2
    /\ it.wrapped = "nil"
    /\ caller.done
    /\ caller.closeRet = NilError
    /\ Len(caller.first) = 3
    /\ inner.closes = 1

(***************************************************************************)
(* C37: when a cached iterator is Reset or Closed after k entries of the   *)
(* wrapped iterator were consumed, the next pass first replays those k     *)
(* entries from the cache in order, leaving the wrapped iterator where it  *)
(* is, and then goes on with entry k+1 of the wrapped iterator. Every pass *)
(* is a prefix of the wrapped sequence, nothing skipped or duplicated, and *)
(* a pass that ran to its end is the whole sequence.                       *)
(***************************************************************************)
C37_PassIsPrefix ==
    /\ caller.resetAt <= inner.pos
    /\ Len(caller.pass) <= Len(inner.entries)
    /\ caller.pass = SubSeq(inner.entries, 1, Len(caller.pass))
    /\ it.cache = SubSeq(inner.entries, 1, inner.pos)
    \* replay leaves the wrapped iterator at k; past k it moves with the pass
    /\ inner.pos = IF Len(caller.pass) <= caller.resetAt
                     THEN caller.resetAt
                     ELSE Len(caller.pass)
    /\ caller.done => caller.pass = inner.entries

\* Reset or Close after one entry of three, then a pass over all three
C37_Witness ==
    /\ caller.resetAt = 1
    /\ inner.entries = <<"x", "y", "y">>
    /\ caller.done
    /\ caller.pass = inner.entries

====
